---- MODULE Spec2Model ----
(***************************************************************************)
(* A model of fx-cli: the command `main` (src/fx_cli/cli.py) and the       *)
(* client FXAPI (src/fx_cli/api.py).                                       *)
(*                                                                         *)
(* Text is modelled as a sequence of one-character strings.  The ten       *)
(* characters FX_API_KEY are one symbol of the alphabet, KEYNAME; "\n" is  *)
(* the line feed.  A process is one invocation of the command; the         *)
(* credential file and its directory outlive it.                           *)
(***************************************************************************)
EXTENDS Integers, Sequences, FiniteSets, TLC

\* ------------------------------------------------------------------ bounds
MaxRuns == 2      \* invocations of the command in one behaviour
MaxEmpty == 2     \* empty answers counted at one prompt
MaxLines == 2     \* lines of the credential file before the first invocation

\* ------------------------------------------------------------------ text
KEYNAME == "FX_API_KEY"
NL == "\n"
DQ == "\""
SP == " "

RECURSIVE Join(_)
\* '\n'.join(lines)
Join(lines) ==
    IF lines = <<>> THEN <<>>
    ELSE IF Len(lines) = 1 THEN lines[1]
    ELSE lines[1] \o <<NL>> \o Join(Tail(lines))

RECURSIVE SplitNL(_)
\* s.split('\n'): always at least one piece
SplitNL(s) ==
    IF \A i \in 1..Len(s) : s[i] # NL THEN <<s>>
    ELSE LET i == CHOOSE k \in 1..Len(s) :
                      s[k] = NL /\ \A j \in 1..(k-1) : s[j] # NL
         IN <<SubSeq(s, 1, i-1)>> \o SplitNL(SubSeq(s, i+1, Len(s)))

RECURSIVE LStrip(_)
LStrip(s) == IF s # <<>> /\ Head(s) \in {SP, NL} THEN LStrip(Tail(s)) ELSE s

RECURSIVE RStrip(_)
RStrip(s) ==
    IF s # <<>> /\ s[Len(s)] \in {SP, NL} THEN RStrip(SubSeq(s, 1, Len(s)-1)) ELSE s

\* str.strip()
Strip(s) == RStrip(LStrip(s))

UpperChar(c) ==
    CASE c = "a" -> "A" [] c = "b" -> "B" [] c = "d" -> "D" [] c = "e" -> "E"
      [] c = "l" -> "L" [] c = "n" -> "N" [] c = "o" -> "O" [] c = "r" -> "R"
      [] c = "s" -> "S" [] c = "t" -> "T" [] c = "u" -> "U" [] c = "y" -> "Y"
      [] OTHER -> c

LowerChar(c) ==
    CASE c = "A" -> "a" [] c = "B" -> "b" [] c = "D" -> "d" [] c = "E" -> "e"
      [] c = "L" -> "l" [] c = "N" -> "n" [] c = "O" -> "o" [] c = "R" -> "r"
      [] c = "S" -> "s" [] c = "T" -> "t" [] c = "U" -> "u" [] c = "Y" -> "y"
      [] OTHER -> c

\* str.upper()
Upper(s) == [i \in 1..Len(s) |-> UpperChar(s[i])]

\* str.lower()
Lower(s) == [i \in 1..Len(s) |-> LowerChar(s[i])]

\* line.startswith('FX_API_KEY=')
StartsWithKey(line) == Len(line) >= 2 /\ line[1] = KEYNAME /\ line[2] = "="

\* f'FX_API_KEY="{api_key}"'
KeyLine(api_key) == <<KEYNAME, "=", DQ>> \o api_key \o <<DQ>>

\* Optional values (None or a string).
None == [set |-> FALSE, val |-> <<>>]
Some(v) == [set |-> TRUE, val |-> v]
\* Python truthiness of an Optional[str]
Truthy(o) == o.set /\ o.val # <<>>

\* ------------------------------------------------- the credential file, read
\* The reader of the file that load_dotenv(config_file) runs, on the alphabet
\* of this model: KEYNAME and letters, "=", the double quote, the space and the
\* line feed (no "#", no single quote, no backslash, no "$", no "export").
RECURSIVE SkipWhile(_, _, _)
SkipWhile(s, i, cs) ==
    IF i <= Len(s) /\ s[i] \in cs THEN SkipWhile(s, i + 1, cs) ELSE i

RECURSIVE SkipUntil(_, _, _)
SkipUntil(s, i, cs) ==
    IF i <= Len(s) /\ s[i] \notin cs THEN SkipUntil(s, i + 1, cs) ELSE i

\* the rest of the line at i, its line feed included
RestOfLine(s, i) ==
    LET e == SkipUntil(s, i, {NL}) IN IF e <= Len(s) THEN e + 1 ELSE e

\* The value after "=": nothing, a double-quoted value (which may span lines and
\* ends at the next double quote), or the rest of the line, right-stripped.
ParseValue(s, i) ==
    IF i > Len(s) \/ s[i] = NL THEN [ok |-> TRUE, val |-> <<>>, pos |-> i]
    ELSE IF s[i] = DQ THEN
        LET j == SkipUntil(s, i + 1, {DQ})
        IN IF j > Len(s) THEN [ok |-> FALSE, val |-> <<>>, pos |-> i]
           ELSE [ok |-> TRUE, val |-> SubSeq(s, i + 1, j - 1), pos |-> j + 1]
    ELSE LET e == SkipUntil(s, i, {NL})
         IN [ok |-> TRUE, val |-> RStrip(SubSeq(s, i, e - 1)), pos |-> e]

\* One binding `key`, `key=`, `key=value` or `key="value"` starting at i (a
\* character that is neither space nor line feed).  A statement that does not
\* parse is dropped with the rest of its line.
ParseBinding(s, i) ==
    LET k1 == SkipUntil(s, i, {"=", SP, NL})
        k2 == SkipWhile(s, k1, {SP})
        hasEq == k2 <= Len(s) /\ s[k2] = "="
        v == IF hasEq THEN ParseValue(s, SkipWhile(s, k2 + 1, {SP}))
             ELSE [ok |-> TRUE, val |-> <<>>, pos |-> k2]
        e == SkipWhile(s, v.pos, {SP})
    IN IF k1 = i THEN [error |-> TRUE, key |-> <<>>, value |-> None,
                       next |-> RestOfLine(s, i)]
       ELSE IF ~v.ok \/ (e <= Len(s) /\ s[e] # NL)
            THEN [error |-> TRUE, key |-> <<>>, value |-> None,
                  next |-> RestOfLine(s, v.pos)]
       ELSE [error |-> FALSE, key |-> SubSeq(s, i, k1 - 1),
             value |-> IF hasEq THEN Some(v.val) ELSE None,
             next |-> IF e <= Len(s) THEN e + 1 ELSE e]

RECURSIVE DotenvLookup(_, _, _, _)
\* The value the file gives `name`: that of its last binding of `name`.
DotenvLookup(s, i, name, acc) ==
    LET i1 == SkipWhile(s, i, {SP, NL})
    IN IF i1 > Len(s) THEN acc
       ELSE LET b == ParseBinding(s, i1)
            IN DotenvLookup(s, b.next, name,
                            IF ~b.error /\ b.key = name THEN b.value ELSE acc)

\* load_dotenv(config_file), default override=False: a variable the environment
\* already holds (even as the empty string) is left alone.
load_dotenv(environ, content) ==
    LET v == DotenvLookup(content, 1, <<KEYNAME>>, None)
    IN IF environ.set \/ ~v.set THEN environ ELSE Some(v.val)

\* ---------------------------------------------- the credential file, written
Min(S) == CHOOSE x \in S : \A y \in S : x <= y

NoFs == [dir |-> FALSE, file |-> FALSE, content |-> <<>>, mode |-> "none"]

\* FXAPI._save_api_key_to_env: the file system after the call.  chmodOk tells
\* whether chmod(0o600) is supported; its failure is ignored.
save_api_key_to_env(fs, api_key, chmodOk) ==
    LET existing_content == IF fs.file THEN fs.content ELSE <<>>
        lines == IF existing_content # <<>> THEN SplitNL(existing_content) ELSE <<>>
        hits == {i \in 1..Len(lines) : StartsWithKey(lines[i])}
        out == IF hits # {} THEN [lines EXCEPT ![Min(hits)] = KeyLine(api_key)]
               ELSE Append(lines, KeyLine(api_key))
    IN [dir |-> TRUE, file |-> TRUE, content |-> Join(out),
        mode |-> IF chmodOk THEN "0600"
                 ELSE IF fs.file THEN fs.mode ELSE "default"]

\* FXAPI._load_api_key_from_config: the environment after the call
load_api_key_from_config(environ, fs) ==
    IF fs.file THEN load_dotenv(environ, fs.content) ELSE environ

\* FXAPI.__init__ up to the prompt: the environment variable, then the file.
\* source tells where the credential came from; "pending" means the prompt.
init_credential(environ, fs) ==
    LET fromEnv == environ
        tryFile == ~Truthy(fromEnv)
        environ1 == IF tryFile THEN load_api_key_from_config(environ, fs)
                    ELSE environ
        key == IF tryFile /\ fs.file THEN environ1 ELSE fromEnv
    IN [environ |-> environ1,
        api_key |-> key,
        fileRead |-> tryFile /\ fs.file,
        source |-> IF Truthy(fromEnv) THEN "env"
                   ELSE IF Truthy(key) THEN "file" ELSE "pending"]

\* IsDecline without the upper(): only the capital letter declines
IsDeclineCapitalOnly(api_key) == api_key = <<"N">>

\* api_key.upper() == 'N'
IsDecline(api_key) == Upper(api_key) = <<"N">>

\* ------------------------------------------------------------------ dates
\* A date argument is free text or three numeric fields Y-M-D.
DateText(chars) == [kind |-> "text", chars |-> chars, y |-> 0, m |-> 0, d |-> 0]
DateYMD(y, m, d) == [kind |-> "ymd", chars |-> <<>>, y |-> y, m |-> m, d |-> d]

IsLeap(y) == (y % 4 = 0 /\ y % 100 # 0) \/ y % 400 = 0

DaysIn(y, m) ==
    IF m = 2 THEN (IF IsLeap(y) THEN 29 ELSE 28)
    ELSE IF m \in {4, 6, 9, 11} THEN 30 ELSE 31

\* datetime.strptime(date, '%Y-%m-%d') does not raise ValueError
ParsesAsDate(date) ==
    /\ date.kind = "ymd"
    /\ date.y >= 1 /\ date.y <= 9999
    /\ date.m >= 1 /\ date.m <= 12
    /\ date.d >= 1 /\ date.d <= DaysIn(date.y, date.m)

\* date.lower() == 'today'
IsToday(date) == date.kind = "text" /\ Lower(date.chars) = <<"t", "o", "d", "a", "y">>

\* ------------------------------------------------------------- exceptions
NoDate == DateText(<<>>)
SignupUrl == "https://openexchangerates.org/signup"

Exc(type, text, code, date, detail, url) ==
    [type |-> type, text |-> text, code |-> code, date |-> date,
     detail |-> detail, url |-> url]

NoExc == Exc("none", "", <<>>, NoDate, "", "")
Declined == Exc("FXAPIError", "API key required to continue. Exiting.",
                <<>>, NoDate, "", "")
Unauthorized == Exc("FXAPIError", "Invalid or expired API key.",
                    <<>>, NoDate, "", SignupUrl)
Forbidden == Exc("FXAPIError", "API access forbidden.", <<>>, NoDate, "", SignupUrl)
NetworkError(cause) == Exc("FXAPIError", "Network error: ", <<>>, NoDate, cause, "")
ApiError(message) == Exc("FXAPIError", "API Error: ", <<>>, NoDate, message, "")
FormatError(key) ==
    Exc("FXAPIError", "Unexpected API response format: ", <<>>, NoDate, key, "")
NotFound(currency, date) ==
    Exc("FXAPIError", "Currency not found in rates for", currency, date, "", "")
BadParameter(text, code, date) == Exc("BadParameter", text, code, date, "", "")
Other(type) == Exc(type, "", <<>>, NoDate, "", "")

Return(v) == [ok |-> TRUE, val |-> v, exc |-> NoExc]
Raise(e) == [ok |-> FALSE, val |-> 0, exc |-> e]

\* ------------------------------------------------------------ rate client
\* What requests.get(...) meets.  transport: "ok" or the exception raised;
\* body.kind: "notjson" (json() raises body.raises), "list", "null", "object".
Rates(kind, sheet) == [kind |-> kind, sheet |-> sheet]
EmptySheet == [c \in {} |-> 0]
Body(kind, raises, hasError, message, rates) ==
    [kind |-> kind, raises |-> raises, hasError |-> hasError,
     message |-> message, rates |-> rates]
NoMessage == [set |-> FALSE, val |-> ""]
Message(text) == [set |-> TRUE, val |-> text]
NoBody == Body("notjson", "RequestException", FALSE, NoMessage,
               Rates("absent", EmptySheet))
\* data.get('message', 'Unknown error')
GetMessage(body) == IF body.message.set THEN body.message.val ELSE "Unknown error"
Response(transport, status, body) ==
    [transport |-> transport, status |-> status, body |-> body]

\* response.raise_for_status() raises HTTPError
RaisesForStatus(status) == status >= 400 /\ status < 600

\* get_historical_rates with raise_for_status() ahead of the 401 and 403 tests
get_historical_rates_StatusFirst(resp, date) ==
    IF resp.transport # "ok" THEN Raise(NetworkError(resp.transport))
    ELSE IF resp.status >= 400 /\ resp.status < 600 THEN Raise(NetworkError("HTTPError"))
    ELSE IF resp.status = 401 THEN Raise(Unauthorized)
    ELSE IF resp.status = 403 THEN Raise(Forbidden)
    ELSE IF resp.body.kind = "notjson" THEN
        (IF resp.body.raises = "RequestException"
         THEN Raise(NetworkError("JSONDecodeError"))
         ELSE Raise(Other("ValueError")))
    ELSE IF resp.body.kind = "null" THEN Raise(Other("TypeError"))
    ELSE IF resp.body.kind = "list" THEN Raise(Other("AttributeError"))
    ELSE IF resp.body.hasError THEN Raise(ApiError(GetMessage(resp.body)))
    ELSE IF resp.body.rates.kind = "absent" THEN Return([kind |-> "sheet", sheet |-> [c \in {} |-> 0]])
    ELSE Return(resp.body.rates)

\* FXAPI.get_historical_rates, given what the request meets
get_historical_rates(resp, date) ==
    IF resp.transport # "ok" THEN Raise(NetworkError(resp.transport))
    ELSE IF resp.status = 401 THEN Raise(Unauthorized)
    ELSE IF resp.status = 403 THEN Raise(Forbidden)
    ELSE IF RaisesForStatus(resp.status) THEN Raise(NetworkError("HTTPError"))
    ELSE IF resp.body.kind = "notjson" THEN
        (IF resp.body.raises = "RequestException"
         THEN Raise(NetworkError("JSONDecodeError"))
         ELSE Raise(Other("ValueError")))
    ELSE IF resp.body.kind = "null" THEN Raise(Other("TypeError"))
    ELSE IF resp.body.kind = "list" THEN Raise(Other("AttributeError"))
    ELSE IF resp.body.hasError THEN Raise(ApiError(GetMessage(resp.body)))
    ELSE IF resp.body.rates.kind = "absent" THEN Return(Rates("sheet", EmptySheet))
    ELSE Return(resp.body.rates)

RECURSIVE Gcd(_, _)
Gcd(a, b) == IF b = 0 THEN a ELSE Gcd(b, a % b)

\* a number, as a fraction in lowest terms
Rat(n, d) == LET g == Gcd(n, d) IN [num |-> n \div g, den |-> d \div g]

\* TrueDiv with the operands exchanged: from_rate / to_rate
TrueDivSwapped(a, b) ==
    IF a = 0 THEN Raise(Other("ZeroDivisionError")) ELSE Return(Rat(b, a))

\* to_rate / from_rate
TrueDiv(a, b) ==
    IF b = 0 THEN Raise(Other("ZeroDivisionError")) ELSE Return(Rat(a, b))

\* FXAPI.get_rate
get_rate(resp, date, currency) ==
    LET cur == Upper(currency)
        rates == get_historical_rates(resp, date)
    IN IF ~rates.ok THEN rates
       ELSE IF rates.val.kind = "null" THEN Raise(Other("TypeError"))
       ELSE IF cur \notin DOMAIN rates.val.sheet THEN Raise(NotFound(cur, date))
       ELSE Return(Rat(rates.val.sheet[cur], 1))

\* convert_currency looking for to_currency before from_currency
convert_currency_ToFirst(resp, date, from_currency, to_currency) ==
    LET from == Upper(from_currency)
        to == Upper(to_currency)
        rates == get_historical_rates(resp, date)
    IN IF ~rates.ok THEN rates
       ELSE IF rates.val.kind = "null" THEN Raise(Other("TypeError"))
       ELSE IF to \notin DOMAIN rates.val.sheet THEN Raise(NotFound(to, date))
       ELSE IF from \notin DOMAIN rates.val.sheet THEN Raise(NotFound(from, date))
       ELSE TrueDiv(rates.val.sheet[to], rates.val.sheet[from])

\* FXAPI.convert_currency
convert_currency(resp, date, from_currency, to_currency) ==
    LET from == Upper(from_currency)
        to == Upper(to_currency)
        rates == get_historical_rates(resp, date)
    IN IF ~rates.ok THEN rates
       ELSE IF rates.val.kind = "null" THEN Raise(Other("TypeError"))
       ELSE IF from \notin DOMAIN rates.val.sheet THEN Raise(NotFound(from, date))
       ELSE IF to \notin DOMAIN rates.val.sheet THEN Raise(NotFound(to, date))
       ELSE TrueDiv(rates.val.sheet[to], rates.val.sheet[from])

\* ---------------------------------------------------------------- output
Line(text, date, from, to, rate) ==
    [text |-> text, date |-> date, from |-> from, to |-> to, rate |-> rate]
Note(text) == Line(text, NoDate, <<>>, <<>>, Rat(0, 1))
Banner == <<Note("FX_API_KEY not found in environment."),
            Note("Get your free API key from: https://openexchangerates.org/signup"),
            Note("")>>
USD == <<"U", "S", "D">>

\* ErrPrefix without the last clause, `except Exception`: the traceback shows
ErrPrefixNoCatchAll(e) ==
    IF e.type \in {"FXAPIError", "BadParameter"} THEN "Error:"
    ELSE "Traceback (most recent call last):"

\* the except clauses of main: the prefix echoed to the error stream
ErrPrefix(e) ==
    IF e.type \in {"FXAPIError", "BadParameter"} THEN "Error:"
    ELSE "Unexpected error:"

\* click.echo(..., err=True); raise click.Abort(), which the command runner
\* reports as "Aborted!" before it exits with status 1
main_except(e) == <<[prefix |-> ErrPrefix(e), exc |-> e],
                    [prefix |-> "", exc |-> Other("Aborted!")]>>

\* validate without the test of the length of currency
validate_NoCurrencyCheck(date, currency, target_currency) ==
    IF ~ParsesAsDate(date) THEN BadParameter("Invalid date format", <<>>, date)
    ELSE IF Truthy(target_currency) /\ Len(target_currency.val) # 3
    THEN BadParameter("Invalid target currency code", target_currency.val, NoDate)
    ELSE NoExc

\* the argument checks of main, lines 22-37: the exception raised, or NoExc
validate(date, currency, target_currency) ==
    IF ~ParsesAsDate(date) THEN BadParameter("Invalid date format", <<>>, date)
    ELSE IF Len(currency) # 3
    THEN BadParameter("Invalid currency code", currency, NoDate)
    ELSE IF Truthy(target_currency) /\ Len(target_currency.val) # 3
    THEN BadParameter("Invalid target currency code", target_currency.val, NoDate)
    ELSE NoExc

\* ------------------------------------------------------------------ state
VARIABLES
    fs,          \* ~/.config/fx-cli and its .env: [dir, file, content, mode]
    saved,       \* the last key _save_api_key_to_env wrote, if any
    run,         \* processes started so far
    pc,          \* "idle", "prompt" (blocked in input), "request", "done"
    args,        \* [date, currency, target, verbose] of this process
    envStart,    \* FX_API_KEY in the environment when the process started
    environ,     \* FX_API_KEY in os.environ now
    fsStart,     \* fs when the process started
    savedStart,  \* saved when the process started
    date,        \* the date after the 'today' substitution
    constructed, \* FXAPI() was called
    api_key,     \* self.api_key
    source,      \* "none", "env", "file", "pending" or "prompt"
    fileRead,    \* load_dotenv(config_file) ran
    empties,     \* empty answers at the prompt
    lastInput,   \* the last answer at the prompt
    netCalls,    \* requests.get calls
    resp,        \* what the last requests.get met
    result,      \* what get_rate / convert_currency returned or raised
    exc,         \* the exception main caught, or NoExc
    stdout, stderr, exitCode

vars == <<fs, saved, run, pc, args, envStart, environ, fsStart, savedStart, date,
          constructed, api_key, source, fileRead, empties, lastInput, netCalls,
          resp, result, exc, stdout, stderr, exitCode>>

Args(d, currency, target_currency, verbose) ==
    [date |-> d, currency |-> currency, target |-> target_currency,
     verbose |-> verbose]
Input(eof, text) == [eof |-> eof, text |-> text]
NoInput == Input(FALSE, <<>>)
NoResponse == Response("none", 0, NoBody)
NoResult == Raise(NoExc)

\* a process that has not started
Fresh ==
    /\ pc = "idle"
    /\ args = Args(NoDate, <<>>, None, FALSE)
    /\ envStart = None /\ environ = None
    /\ fsStart = fs /\ savedStart = saved
    /\ date = NoDate
    /\ constructed = FALSE /\ api_key = None /\ source = "none"
    /\ fileRead = FALSE /\ empties = 0 /\ lastInput = NoInput
    /\ netCalls = 0 /\ resp = NoResponse /\ result = NoResult /\ exc = NoExc
    /\ stdout = <<>> /\ stderr = <<>> /\ exitCode = -1

\* main's except clauses, then the exit
Fails(e) ==
    /\ exc' = e
    /\ stderr' = stderr \o main_except(e)
    /\ exitCode' = 1
    /\ pc' = "done"

Fetching == IF args'.verbose THEN <<Line("Fetching rates for", date', <<>>, <<>>, Rat(0, 1))>>
            ELSE <<>>

\* main from its start to the first point where it waits: the argument checks,
\* then FXAPI() up to the prompt or to the request.
MainStart(a, e, now) ==
    /\ pc = "idle"
    /\ args' = a /\ envStart' = e
    /\ date' = IF IsToday(a.date) THEN now ELSE a.date
    /\ UNCHANGED <<fs, saved, run, fsStart, savedStart, empties, lastInput,
                   netCalls, resp, result>>
    /\ LET bad == validate(date', a.currency, a.target)
           c == init_credential(e, fs)
       IN IF bad # NoExc
          THEN /\ Fails(bad)
               /\ UNCHANGED <<environ, constructed, api_key, source, fileRead, stdout>>
          ELSE /\ constructed' = TRUE
               /\ environ' = c.environ
               /\ api_key' = c.api_key
               /\ source' = c.source
               /\ fileRead' = c.fileRead
               /\ pc' = IF c.source = "pending" THEN "prompt" ELSE "request"
               /\ stdout' = IF c.source = "pending" THEN Banner ELSE Fetching
               /\ UNCHANGED <<exc, stderr, exitCode>>

\* One answer at input() in _prompt_for_api_key, and what follows it up to the
\* next wait: the abort, the save and the rest of FXAPI(), or the next prompt.
\* mkdirOk tells whether config_dir.mkdir can create a missing directory (it
\* raises OSError otherwise, before anything is written).
PromptInput(inp, mkdirOk, chmodOk) ==
    /\ pc = "prompt"
    /\ lastInput' = inp
    /\ UNCHANGED <<run, args, envStart, environ, fsStart, savedStart, date,
                   constructed, fileRead, netCalls, resp, result>>
    /\ LET key == Strip(inp.text)
       IN IF inp.eof
          THEN /\ Fails(Other("EOFError"))
               /\ UNCHANGED <<fs, saved, api_key, source, empties, stdout>>
          ELSE IF IsDecline(key)
          THEN /\ Fails(Declined)
               /\ UNCHANGED <<fs, saved, api_key, source, empties, stdout>>
          ELSE IF key # <<>> /\ ~fs.dir /\ ~mkdirOk
          THEN /\ api_key' = Some(key)
               /\ Fails(Other("OSError"))
               /\ UNCHANGED <<fs, saved, source, empties, stdout>>
          ELSE IF key # <<>>
          THEN /\ api_key' = Some(key)
               /\ source' = "prompt"
               /\ fs' = save_api_key_to_env(fs, key, chmodOk)
               /\ saved' = Some(key)
               /\ stdout' = stdout \o <<Note("API key set successfully and saved")>>
                                   \o Fetching
               /\ pc' = "request"
               /\ UNCHANGED <<empties, exc, stderr, exitCode>>
          ELSE /\ empties < MaxEmpty
               /\ empties' = empties + 1
               /\ stdout' = stdout \o <<Note("Please enter a valid API key or 'N' to exit.")>>
               /\ UNCHANGED <<fs, saved, api_key, source, pc, exc, stderr, exitCode>>

\* The one requests.get of the process meets r; main runs to its end.
Respond(r) ==
    /\ pc = "request"
    /\ netCalls' = netCalls + 1
    /\ resp' = r
    /\ result' = IF Truthy(args.target)
                 THEN convert_currency(r, date, args.currency, args.target.val)
                 ELSE get_rate(r, date, args.currency)
    /\ UNCHANGED <<fs, saved, run, args, envStart, environ, fsStart, savedStart,
                   date, constructed, api_key, source, fileRead, empties, lastInput>>
    /\ IF result'.ok
       THEN /\ stdout' = stdout \o
                  <<IF Truthy(args.target)
                    THEN Line("FX rate for", date, args.currency, args.target.val,
                              result'.val)
                    ELSE Line("FX rate for", date, USD, args.currency, result'.val)>>
            /\ exitCode' = 0
            /\ pc' = "done"
            /\ UNCHANGED <<exc, stderr>>
       ELSE /\ Fails(result'.exc)
            /\ UNCHANGED stdout

\* The process has exited; the next invocation starts from the files it left.
NextProcess ==
    /\ pc = "done"
    /\ run < MaxRuns
    /\ run' = run + 1
    /\ UNCHANGED <<fs, saved>>
    /\ pc' = "idle"
    /\ args' = Args(NoDate, <<>>, None, FALSE)
    /\ envStart' = None /\ environ' = None
    /\ fsStart' = fs /\ savedStart' = saved
    /\ date' = NoDate
    /\ constructed' = FALSE /\ api_key' = None /\ source' = "none"
    /\ fileRead' = FALSE /\ empties' = 0 /\ lastInput' = NoInput
    /\ netCalls' = 0 /\ resp' = NoResponse /\ result' = NoResult /\ exc' = NoExc
    /\ stdout' = <<>> /\ stderr' = <<>> /\ exitCode' = -1

\* ------------------------------------------------------------------ inputs
Today == DateText(<<"t", "o", "d", "a", "y">>)
TodayCapital == DateText(<<"T", "o", "d", "a", "y">>)
LeapDay == DateYMD(2024, 2, 29)
Dates == {Today, TodayCapital, LeapDay, DateYMD(2023, 2, 29), DateYMD(2024, 13, 40),
          DateText(<<"n", "o", "w">>)}
Clock == {DateYMD(2026, 11, 3)}

usd == <<"u", "s", "d">>
EUR == <<"E", "U", "R">>
Brl == <<"B", "r", "l">>
Currencies == {usd, EUR, Brl, <<"u", "s">>, <<"U", "S", "D", "T">>}
Targets == {None, Some(<<>>), Some(<<"e", "u", "r">>), Some(USD), Some(Brl),
            Some(<<"e", "u">>)}
ArgChoices == {Args(d, c, t, v) : d \in Dates, c \in Currencies,
                                  t \in Targets, v \in BOOLEAN}
OneLookup == {Args(LeapDay, usd, None, FALSE), Args(LeapDay, <<"u", "s">>, None, FALSE)}

EnvKey == <<"e">>
EnvChoices == {None, Some(<<>>), Some(EnvKey)}

\* answers at the prompt
Answers == {Input(TRUE, <<>>), Input(FALSE, <<>>), Input(FALSE, <<SP>>),
            Input(FALSE, <<"N">>), Input(FALSE, <<SP, "n", SP>>),
            Input(FALSE, <<"a">>), Input(FALSE, <<SP, "a", DQ, "b">>)}

\* what the provider may answer
ProviderCodes == {USD, EUR}
RateValues == {0, 2, 3}
Sheets == UNION {[D -> RateValues] : D \in SUBSET ProviderCodes}
Object(hasError, message, rates) == Body("object", "", hasError, message, rates)
FullSheet == [c \in ProviderCodes |-> 2]
Bodies ==
    {Body("notjson", x, FALSE, NoMessage, Rates("absent", EmptySheet)) :
        x \in {"RequestException", "ValueError"}}
    \cup {Body("list", "", FALSE, NoMessage, Rates("absent", EmptySheet)),
          Body("null", "", FALSE, NoMessage, Rates("absent", EmptySheet)),
          Object(TRUE, Message("Invalid App ID"), Rates("absent", EmptySheet)),
          Object(TRUE, NoMessage, Rates("absent", EmptySheet)),
          Object(TRUE, NoMessage, Rates("sheet", FullSheet)),
          Object(FALSE, NoMessage, Rates("absent", EmptySheet)),
          Object(FALSE, Message("ok"), Rates("null", EmptySheet))}
    \cup {Object(FALSE, NoMessage, Rates("sheet", sh)) : sh \in Sheets}
Responses ==
    {Response(t, 0, NoBody) : t \in {"ConnectionError", "Timeout"}}
    \cup {Response("ok", st, NoBody) : st \in {401, 403, 404, 500}}
    \cup {Response("ok", 304, b) : b \in {NoBody, Object(FALSE, NoMessage, Rates("sheet", FullSheet))}}
    \cup {Response("ok", 200, b) : b \in Bodies}
OneResponse == {Response("ok", 200, Object(FALSE, NoMessage, Rates("sheet", FullSheet))),
                Response("ok", 401, NoBody)}

\* the credential file before the first invocation
Lines == {<<>>,
          <<KEYNAME, "=", "o">>,
          <<KEYNAME, "=">>,
          <<SP, KEYNAME, "=", "o">>,
          <<"b", "=", "o">>,
          <<"b", "=", DQ, "o">>}
RECURSIVE SeqsUpTo(_, _)
SeqsUpTo(S, n) ==
    IF n = 0 THEN {<<>>}
    ELSE LET shorter == SeqsUpTo(S, n - 1)
         IN shorter \cup {Append(q, x) : q \in shorter, x \in S}
File(content) == [dir |-> TRUE, file |-> TRUE, content |-> content, mode |-> "default"]
DirOnly == [dir |-> TRUE, file |-> FALSE, content |-> <<>>, mode |-> "none"]
FsFew == {NoFs, DirOnly, File(<<KEYNAME, "=", "o">>)}
FsAll == {NoFs, DirOnly} \cup {File(Join(ls)) : ls \in SeqsUpTo(Lines, MaxLines)}

\* ---------------------------------------------------------- specifications
\* One invocation of the command, over its arguments and the provider's answers.
Init == fs \in FsFew /\ saved = None /\ run = 1 /\ Fresh

Next ==
    \/ \E a \in ArgChoices, e \in EnvChoices, now \in Clock : MainStart(a, e, now)
    \/ \E inp \in Answers, mkdirOk, chmodOk \in BOOLEAN :
          PromptInput(inp, mkdirOk, chmodOk)
    \/ \E r \in Responses : Respond(r)

Spec == Init /\ [][Next]_vars

\* Successive invocations over the credential files, with one lookup each.
InitCred == fs \in FsAll /\ saved = None /\ run = 1 /\ Fresh

NextCred ==
    \/ \E a \in OneLookup, e \in EnvChoices, now \in Clock : MainStart(a, e, now)
    \/ \E inp \in Answers, mkdirOk, chmodOk \in BOOLEAN :
          PromptInput(inp, mkdirOk, chmodOk)
    \/ \E r \in OneResponse : Respond(r)
    \/ NextProcess

SpecCred == InitCred /\ [][NextCred]_vars

\* ------------------------------------------------------------------ claims
FileKey(f) == IF f.file THEN DotenvLookup(f.content, 1, <<KEYNAME>>, None) ELSE None
LinesOf(f) == IF f.file /\ f.content # <<>> THEN SplitNL(f.content) ELSE <<>>
ErrorPrefixes == {"Error:", "Unexpected error:"}
ResultLines == {i \in 1..Len(stdout) : stdout[i].text = "FX rate for"}

\* C1: FXAPI() takes the credential from a non-empty FX_API_KEY of the
\* environment without reading the file or prompting; otherwise from the file
\* when it exists and defines FX_API_KEY non-empty, without prompting; the
\* prompt is reached only when both give nothing.
C1_ResolutionOrder ==
    constructed =>
        /\ Truthy(envStart) =>
              source = "env" /\ api_key = envStart /\ ~fileRead
        /\ (~Truthy(envStart) /\ Truthy(FileKey(fsStart))) =>
              source = "file" /\ api_key = FileKey(fsStart)
        /\ source \in {"pending", "prompt"} =>
              ~Truthy(envStart) /\ ~Truthy(FileKey(fsStart))

\* answers that decline
DeclineAnswers == {<<"N">>, <<SP, "n", SP>>}

\* C2: answering "N" or "n" (stripped) at the prompt, after any number of empty
\* answers, raises FXAPIError and ends the run with the directory and the
\* credential file exactly as they were: nothing created, nothing written.
C2_DeclineWritesNothing ==
    (pc # "idle" /\ ~lastInput.eof /\ lastInput.text \in DeclineAnswers) =>
        /\ pc = "done" /\ exc = Declined /\ exc.type = "FXAPIError"
        /\ exitCode # 0
        /\ fs = fsStart /\ saved = savedStart
        /\ netCalls = 0

C2_Witness ==
    /\ pc = "done" /\ lastInput.text = <<SP, "n", SP>> /\ exc = Declined
    /\ empties >= 1 /\ ~fsStart.dir

\* C3: once _save_api_key_to_env has written a key accepted at the prompt, a
\* later resolution with FX_API_KEY unset in the environment reads that same
\* key from the file and does not prompt.
C3_SavedKeyReadBack ==
    (constructed /\ savedStart.set /\ ~envStart.set) =>
        source = "file" /\ api_key = savedStart

\* C4: for codes A and B both present in the sheet returned for the date,
\* convert_currency(d, A, B) is get_rate(d, B) divided by get_rate(d, A),
\* unrounded (and raises ZeroDivisionError where that quotient is undefined).
C4_ConvertIsQuotient ==
    (pc = "done" /\ netCalls = 1 /\ Truthy(args.target)) =>
        LET a == get_rate(resp, date, args.currency)
            b == get_rate(resp, date, args.target.val)
        IN (a.ok /\ b.ok) =>
              IF a.val.num = 0
              THEN ~result.ok /\ result.exc.type = "ZeroDivisionError"
              ELSE /\ result.ok
                   /\ result.val.den # 0
                   /\ result.val.num * a.val.num * b.val.den
                        = b.val.num * a.val.den * result.val.den

C4_Witness ==
    /\ pc = "done" /\ args.currency = usd /\ args.target = Some(<<"e", "u", "r">>)
    /\ result.ok /\ result.val = [num |-> 3, den |-> 2]

\* C5: a code absent from the sheet returned for the date makes get_rate and
\* convert_currency raise the not-found FXAPIError naming the upper-cased code
\* and the date; convert_currency names from_currency when both are absent and
\* to_currency when only it is absent.
C5_NotFoundNamesCode ==
    (pc = "done" /\ netCalls = 1 /\ resp.transport = "ok" /\ resp.status = 200
       /\ resp.body.kind = "object" /\ ~resp.body.hasError
       /\ resp.body.rates.kind = "sheet") =>
        LET present == DOMAIN resp.body.rates.sheet
            from == Upper(args.currency)
            to == Upper(args.target.val)
        IN /\ from \notin present =>
                 /\ exc = NotFound(from, date)
                 /\ stderr[1] = [prefix |-> "Error:", exc |-> exc]
           /\ (Truthy(args.target) /\ from \in present /\ to \notin present) =>
                 /\ exc = NotFound(to, date)
                 /\ stderr[1] = [prefix |-> "Error:", exc |-> exc]

C5_Witness ==
    /\ pc = "done" /\ args.currency = usd /\ args.target = Some(Brl)
    /\ resp.body.rates.kind = "sheet" /\ DOMAIN resp.body.rates.sheet = {EUR}
    /\ exc = NotFound(USD, date)

\* the arguments C6 calls invalid, read to the letter
C6_InvalidAsStated ==
    IF args.date = Today THEN FALSE
    ELSE \/ ~ParsesAsDate(args.date)
         \/ Len(args.currency) # 3
         \/ (args.target.set /\ Len(args.target.val) # 3)

\* the arguments main rejects: "today" is taken in any letter case, and an
\* empty target_currency counts as none
C6_Invalid ==
    \/ (~ParsesAsDate(args.date)
          /\ ~(args.date.kind = "text"
                 /\ args.date.chars \in {Today.chars, TodayCapital.chars}))
    \/ Len(args.currency) # 3
    \/ (args.target.set /\ args.target.val # <<>> /\ Len(args.target.val) # 3)

\* C6 as stated: an invocation whose date is neither "today" nor parses as
\* YYYY-MM-DD, or whose currency or supplied target_currency has not length 3,
\* reports a parameter error and aborts with no FXAPI() and no network call.
C6_Original ==
    (pc # "idle" /\ C6_InvalidAsStated) =>
        /\ pc = "done" /\ exc.type = "BadParameter" /\ exitCode # 0
        /\ ~constructed /\ netCalls = 0

\* C6 amended: an invocation whose date is neither "today" in any letter case
\* nor parses as YYYY-MM-DD, or whose currency has not length 3, or whose
\* non-empty target_currency has not length 3, reports a parameter error and
\* aborts with no FXAPI() and no network call.
C6_InvalidArgsAbortEarly ==
    (pc # "idle" /\ C6_Invalid) =>
        /\ pc = "done" /\ exc.type = "BadParameter" /\ exitCode # 0
        /\ stderr[1].prefix = "Error:"
        /\ ~constructed /\ netCalls = 0

C6_Witness ==
    /\ pc = "done" /\ args.date = DateYMD(2024, 13, 40) /\ Len(args.currency) = 3
    /\ exc.type = "BadParameter" /\ ~constructed

C8_MalformedIsFormatError ==
    (pc = "done" /\ netCalls = 1 /\ resp.transport = "ok" /\ resp.status = 200
       /\ resp.body.kind \in {"notjson", "list", "null"}) =>
        exc.type = "FXAPIError" /\ exc.text = "Unexpected API response format: "

\* C9: a failing run of main prints one message prefixed "Error:" or
\* "Unexpected error:" to the error stream and exits non-zero, prints no
\* "FX rate for" line, and makes no second request.
C9_FailuresReported ==
    /\ netCalls <= 1
    /\ pc = "done" =>
        /\ (netCalls = 1 /\ ~result.ok) => exc = result.exc
        /\ exc # NoExc =>
              /\ exitCode # 0
              /\ Cardinality({i \in 1..Len(stderr) :
                                 stderr[i].prefix \in ErrorPrefixes}) = 1
              /\ stderr[1].prefix \in ErrorPrefixes /\ stderr[1].exc = exc
              /\ ResultLines = {}
        /\ exc = NoExc =>
              exitCode = 0 /\ stderr = <<>> /\ Cardinality(ResultLines) = 1

C9_Witness ==
    /\ pc = "done" /\ exc.type = "ZeroDivisionError"
    /\ stderr[1].prefix = "Unexpected error:" /\ exitCode = 1

\* C10: _save_api_key_to_env changes only the credential assignment: a line not
\* defining FX_API_KEY is written back unchanged in its place; a line defining
\* it is replaced in place by FX_API_KEY="<key>", and without one that line is
\* appended last; afterwards the file defines FX_API_KEY as the new key.
C10_SaveChangesOnlyTheKey ==
    (source = "prompt") =>
        LET old == LinesOf(fsStart)
            new == LinesOf(fs)
            defs == {i \in 1..Len(old) : StartsWithKey(old[i])}
        IN /\ Len(new) >= Len(old)
           /\ \A i \in 1..Len(old) : i \notin defs => new[i] = old[i]
           /\ defs # {} => Len(new) = Len(old) /\ new[Min(defs)] = KeyLine(api_key.val)
           /\ defs = {} => new = Append(old, KeyLine(api_key.val))
           /\ FileKey(fs) = api_key

====
